---- MODULE Spec2Model ----
(***************************************************************************)
(* A model of the FLIP/PIC smoke solver of VS2010/8-FLIP/Fluid.cpp.        *)
(*                                                                         *)
(* Number representation.  The code computes in doubles; the model         *)
(* computes on a fixed-point lattice.  Every length is an integer count    *)
(* of quanta, Res quanta to one grid cell.  The code keeps particle        *)
(* positions in grid units and hands world coordinates (grid units times   *)
(* _hx) to the bodies; one quantum is 1/Res cell = _hx/Res world units, so *)
(* a position is the same count of quanta in both unit systems and only    *)
(* the literals change: the world length 1.0 is WorldOne quanta, one cell  *)
(* (_hx in world units) is Res quanta, and the code's 0.001 is the         *)
(* lattice step Eps.  Field values (density, temperature, velocity) are    *)
(* integers as well; a division rounds down to the lattice.  Velocities    *)
(* are counted in quanta per second.                                       *)
(***************************************************************************)
EXTENDS Integers, Sequences, FiniteSets, TLC

\* ------------------------------------------------------------------ bounds
Half == 2
Res == 2 * Half
GridW == 3
GridH == 4
MaxSteps == 5

\* ------------------------------------------------------- program constants
Eps == 1
MaxPerCell == 12
MinPerCell == 3
AvgPerCell == 4
TimestepDen == 400
AlphaDen == 1000
FlipAlphaNum == 1
TAmb == 294
StepsPerIdle == 4
LcgMul == 1103515245
LcgInc == 12345
LcgMask == 2147483647
LcgSeed0 == 979286545

MinWH == IF GridW < GridH THEN GridW ELSE GridH
WorldOne == MinWH * Res

\* ------------------------------------------------------------- arithmetic
Abs(x) == IF x < 0 THEN -x ELSE x
Min(a, b) == IF b < a THEN b ELSE a
Max(a, b) == IF a < b THEN b ELSE a
Sgn(v) == IF v > 0 THEN 1 ELSE IF v < 0 THEN -1 ELSE 0
NSgn(v) == IF v < 0 THEN -1 ELSE 1

\* (int)x of a lattice value x counted in quanta: truncation toward zero.
CInt(x) == IF x >= 0 THEN x \div Res ELSE -((-x) \div Res)

RECURSIVE SqrtSearch(_, _, _)
SqrtSearch(n, lo, hi) ==
    IF lo >= hi THEN lo
    ELSE LET mid == (lo + hi + 1) \div 2
         IN  IF mid * mid <= n THEN SqrtSearch(n, mid, hi)
             ELSE SqrtSearch(n, lo, mid - 1)

\* sqrt(x*x + y*y), rounded down to the lattice.
Length(x, y) == SqrtSearch(x * x + y * y, 0, Abs(x) + Abs(y))

\* A world-coordinate literal num/den (0.45 is 45/100) on the lattice.
WorldLit(num, den) == (num * WorldOne) \div den

\* x*_hx and x/_hx: grid quanta and world quanta are the same length.
ToWorld(x) == x
ToGrid(x) == x

\* ------------------------------------------------------------------ frand
\* (x + y) mod 2^31 for 0 <= x, y < 2^31, without leaving 32-bit integers.
AddMod31(x, y) == IF x > LcgMask - y THEN (x - (LcgMask - y)) - 1 ELSE x + y

\* (a * b) mod 2^31 by 11-bit limbs.
MulMod31(a, b) ==
    LET a0 == a % 2048
        a1 == (a \div 2048) % 2048
        a2 == a \div 4194304
        b0 == b % 2048
        b1 == (b \div 2048) % 2048
        b2 == b \div 4194304
        t1 == a0 * b0
        t2 == ((a0 * b1 + a1 * b0) % 1048576) * 2048
        t3 == ((a0 * b2 + a1 * b1 + a2 * b0) % 512) * 4194304
    IN  AddMod31(AddMod31(t1, t2), t3)

\* seed = (seed*1103515245 + 12345) & 0x7FFFFFFF
LcgNext(s) == AddMod31(MulMod31(s, LcgMul), LcgInc)

\* The float ((seed >> 8) | 0x3F800000) - 1.0f is (seed >> 8)/2^23 in [0, 1);
\* here in quanta of a cell, rounded down.
FrandQ(s) == (((s \div 256) * Res) \div 8388608)

\* ----------------------------------------------------------------- bodies
\* A body is a SolidBox: position (px, py), scale (sx, sy) and rotation rot
\* (counted in quarter turns, so that cos and sin are exact), linear
\* velocity (vx, vy) in quanta per second and angular velocity vt.
Cos4(k) == CASE k % 4 = 0 -> 1 [] k % 4 = 1 -> 0 [] k % 4 = 2 -> -1 [] OTHER -> 0
Sin4(k) == CASE k % 4 = 0 -> 0 [] k % 4 = 1 -> 1 [] k % 4 = 2 -> 0 [] OTHER -> -1

\* rotate(x, y, phi) with phi = k quarter turns (k may be negative).
Rotate(p, k) ==
    LET c == Cos4(k)
        s == Sin4(k)
    IN  << c * p[1] + s * p[2], (-s) * p[1] + c * p[2] >>

BoxLocal(b, x, y) == Rotate(<< x - b.px, y - b.py >>, -b.rot)

BoxDistance(b, x, y) ==
    LET p  == BoxLocal(b, x, y)
        dx == Abs(p[1]) - b.sx \div 2
        dy == Abs(p[2]) - b.sy \div 2
    IN  IF dx >= 0 \/ dy >= 0 THEN Length(Max(dx, 0), Max(dy, 0))
        ELSE Max(dx, dy)

BoxClosestSurfacePoint(b, x, y) ==
    LET p  == BoxLocal(b, x, y)
        dx == Abs(p[1]) - b.sx \div 2
        dy == Abs(p[2]) - b.sy \div 2
        q  == IF dx > dy THEN << NSgn(p[1]) * (b.sx \div 2), p[2] >>
              ELSE << p[1], NSgn(p[2]) * (b.sy \div 2) >>
        r  == Rotate(q, b.rot)
    IN  << r[1] + b.px, r[2] + b.py >>

BoxDistanceNormal(b, x, y) ==
    LET p == BoxLocal(b, x, y)
        n == IF Abs(p[1]) - b.sx \div 2 > Abs(p[2]) - b.sy \div 2
             THEN << NSgn(p[1]), 0 >>
             ELSE << 0, NSgn(p[2]) >>
    IN  Rotate(n, b.rot)

VelocityX(b, x, y) == (b.py - y) * b.vt + b.vx
VelocityY(b, x, y) == (x - b.px) * b.vt + b.vy

\* SolidBody::update(timestep), timestep = 1/TimestepDen.
BodyUpdate(b) ==
    [b EXCEPT !.px = b.px + b.vx \div TimestepDen,
              !.py = b.py + b.vy \div TimestepDen,
              !.rot = b.rot + b.vt \div TimestepDen]

\* -------------------------------------------------------------- occupancy
\* Fractions are pairs << numerator, denominator >> with denominator > 0.
RatAdd(a, b) == << a[1] * b[2] + b[1] * a[2], a[2] * b[2] >>
RatOneMinus(a) == << a[2] - a[1], a[2] >>
RatIsZero(a) == a[1] = 0
\* a < num/den
RatLess(a, num, den) == a[1] * den < num * a[2]

TriangleOccupancy(out1, in, out2) ==
    << in * in, 2 * (out1 - in) * (out2 - in) >>

TrapezoidOccupancy(out1, out2, in1, in2) ==
    << (-in1) * (out2 - in2) + (-in2) * (out1 - in1),
       2 * (out1 - in1) * (out2 - in2) >>

\* The 4-bit case: bit i is set when ds[i] < 0, ds = {d11, d12, d22, d21}.
OccupancyCase(d11, d12, d21, d22) ==
    (IF d11 < 0 THEN 1 ELSE 0) + (IF d12 < 0 THEN 2 ELSE 0)
  + (IF d22 < 0 THEN 4 ELSE 0) + (IF d21 < 0 THEN 8 ELSE 0)

Occupancy(d11, d12, d21, d22) ==
    LET b == OccupancyCase(d11, d12, d21, d22)
    IN  CASE b = 0  -> << 0, 1 >>
          [] b = 1  -> TriangleOccupancy(d21, d11, d12)
          [] b = 2  -> TriangleOccupancy(d11, d12, d22)
          [] b = 4  -> TriangleOccupancy(d12, d22, d21)
          [] b = 8  -> TriangleOccupancy(d22, d21, d11)
          [] b = 14 -> RatOneMinus(TriangleOccupancy(-d21, -d11, -d12))
          [] b = 13 -> RatOneMinus(TriangleOccupancy(-d11, -d12, -d22))
          [] b = 11 -> RatOneMinus(TriangleOccupancy(-d12, -d22, -d21))
          [] b = 7  -> RatOneMinus(TriangleOccupancy(-d22, -d21, -d11))
          [] b = 3  -> TrapezoidOccupancy(d21, d22, d11, d12)
          [] b = 6  -> TrapezoidOccupancy(d11, d21, d12, d22)
          [] b = 9  -> TrapezoidOccupancy(d12, d22, d11, d21)
          [] b = 12 -> TrapezoidOccupancy(d11, d12, d21, d22)
          [] b = 5  -> RatAdd(TriangleOccupancy(d11, d12, d22),
                              TriangleOccupancy(d22, d21, d11))
          [] b = 10 -> RatAdd(TriangleOccupancy(d21, d11, d12),
                              TriangleOccupancy(d12, d22, d21))
          [] OTHER  -> << 1, 1 >>

\* ---------------------------------------------------------- FluidQuantity
QN == { "d", "t", "u", "v" }
QOrder == << "d", "t", "u", "v" >>

Cells(q) == 0 .. (q.w * q.h - 1)

\* FluidQuantity(w, h, ox, oy, hx).  The constructor sets cell, volume and
\* src; old, phi, normalX, normalY, body and mask are left as allocated.
\* Each of those is written before it is read (old by copy, phi, the
\* normals and body by fillSolidFields, mask by fillSolidMask), except the
\* normals when there is no body: extrapolate compares them, and then
\* calls freeSolidNeighbour, which does nothing unless the cell is SOLID,
\* and no cell is SOLID without a body.  They are 0 here.
NewQuantity(w, h, ox, oy) ==
    [ w |-> w, h |-> h, ox |-> ox, oy |-> oy,
      src     |-> [i \in 0 .. (w * h - 1) |-> 0],
      old     |-> [i \in 0 .. (w * h - 1) |-> 0],
      phi     |-> [i \in 0 .. ((w + 1) * (h + 1) - 1) |-> 0],
      volume  |-> [i \in 0 .. (w * h - 1) |-> << 1, 1 >>],
      normalX |-> [i \in 0 .. (w * h - 1) |-> 0],
      normalY |-> [i \in 0 .. (w * h - 1) |-> 0],
      cell    |-> [i \in 0 .. (w * h - 1) |-> "FLUID"],
      body    |-> [i \in 0 .. (w * h - 1) |-> 0],
      mask    |-> [i \in 0 .. (w * h - 1) |-> 0] ]

At(q, x, y) == q.src[x + y * q.w]
Volume(q, x, y) == q.volume[x + y * q.w]

Copy(q) == [q EXCEPT !.old = q.src]

\* (1 - alpha)*old[i] with alpha = a/AlphaDen.
OneMinusAlphaTimes(a, x) == ((AlphaDen - a) * x) \div AlphaDen

Diff(q, a) ==
    [q EXCEPT !.src = [i \in Cells(q) |-> q.src[i] - OneMinusAlphaTimes(a, q.old[i])]]

\* A variant of undiff that adds alpha*old.
UndiffAlpha(q, a) ==
    [q EXCEPT !.src = [i \in Cells(q) |-> q.src[i] + (a * q.old[i]) \div AlphaDen]]

Undiff(q, a) ==
    [q EXCEPT !.src = [i \in Cells(q) |-> q.src[i] + OneMinusAlphaTimes(a, q.old[i])]]

\* lerp(x, y): x and y in quanta of grid units.  a*(1 - x) + b*x twice,
\* divided once at the end.
Lerp(q, x, y) ==
    LET cx == Min(Max(x - q.ox, 0), (q.w - 1) * Res - Eps)
        cy == Min(Max(y - q.oy, 0), (q.h - 1) * Res - Eps)
        ix == CInt(cx)
        iy == CInt(cy)
        fx == cx - ix * Res
        fy == cy - iy * Res
        x00 == At(q, ix, iy)
        x10 == At(q, ix + 1, iy)
        x01 == At(q, ix, iy + 1)
        x11 == At(q, ix + 1, iy + 1)
    IN  ((x00 * (Res - fx) + x10 * fx) * (Res - fy)
         + (x01 * (Res - fx) + x11 * fx) * fy) \div (Res * Res)

\* The minimum distance to the bodies, bodies[0] first.
RECURSIVE MinDistance(_, _, _, _)
MinDistance(bodies, i, x, y) ==
    IF i = 1 THEN BoxDistance(bodies[1], x, y)
    ELSE Min(MinDistance(bodies, i - 1, x, y), BoxDistance(bodies[i], x, y))

\* The index (from 0) of the nearest body; an earlier body wins a tie.
RECURSIVE NearestBody(_, _, _, _)
NearestBody(bodies, i, x, y) ==
    IF i = 1 THEN 0
    ELSE LET best == NearestBody(bodies, i - 1, x, y)
         IN  IF BoxDistance(bodies[i], x, y) < BoxDistance(bodies[best + 1], x, y)
             THEN i - 1 ELSE best

\* A variant of the volume without the clamp of small volumes to 0.
VolumeUnclamped(phi, idxp, w) ==
    RatOneMinus(Occupancy(phi[idxp], phi[idxp + 1],
                          phi[idxp + w + 1], phi[idxp + w + 2]))

\* The volume of a sample from its four corner distances, clamped.
ClampedVolume(phi, idxp, w) ==
    LET v == RatOneMinus(Occupancy(phi[idxp], phi[idxp + 1],
                                   phi[idxp + w + 1], phi[idxp + w + 2]))
    IN  IF RatLess(v, 1, 100) THEN << 0, 1 >> ELSE v

ClassifyVolume(v) == IF RatIsZero(v) THEN "SOLID" ELSE "FLUID"

FillSolidFields(q, bodies) ==
    IF bodies = << >> THEN q
    ELSE
    LET nb  == Len(bodies)
        phi == [i \in 0 .. ((q.w + 1) * (q.h + 1) - 1) |->
                  LET ix == i % (q.w + 1)
                      iy == i \div (q.w + 1)
                  IN  MinDistance(bodies, nb, ToWorld(ix * Res + q.ox - Half),
                                              ToWorld(iy * Res + q.oy - Half))]
        sx(i) == ToWorld((i % q.w) * Res + q.ox)
        sy(i) == ToWorld((i \div q.w) * Res + q.oy)
        bdy == [i \in Cells(q) |-> NearestBody(bodies, nb, sx(i), sy(i))]
        vol == [i \in Cells(q) |->
                  ClampedVolume(phi, (i % q.w) + (i \div q.w) * (q.w + 1), q.w)]
        nrm == [i \in Cells(q) |-> BoxDistanceNormal(bodies[bdy[i] + 1], sx(i), sy(i))]
    IN  [q EXCEPT !.phi = phi, !.body = bdy, !.volume = vol,
                  !.normalX = [i \in Cells(q) |-> nrm[i][1]],
                  !.normalY = [i \in Cells(q) |-> nrm[i][2]],
                  !.cell = [i \in Cells(q) |-> ClassifyVolume(vol[i])]]

\* 0.0/0: the not-a-number extrapolateAverage yields for a count of 0.
NaNValue == -1000000000
IsNaN(v) == v = NaNValue

\* ------------------------------------------------------------ addInflow
PulseRes == 10

\* cubicPulse(l)*v, with l counted in 1/PulseRes.
CubicPulseTimes(l, v) ==
    LET x == Min(Abs(l), PulseRes)
    IN  ((PulseRes * PulseRes * PulseRes - x * x * (3 * PulseRes - 2 * x)) * v)
            \div (PulseRes * PulseRes * PulseRes)

\* The samples addInflow visits, in loop order: y outer, x inner, and x
\* bounded by min(ix1, _h) as the code has it.
InflowSamples(q, x0, y0, x1, y1) ==
    LET ix0 == CInt(ToGrid(x0) - q.ox)
        iy0 == CInt(ToGrid(y0) - q.oy)
        ix1 == CInt(ToGrid(x1) - q.ox)
        iy1 == CInt(ToGrid(y1) - q.oy)
        xs  == Max(ix0, 0) .. (Min(ix1, q.h) - 1)
        ys  == Max(iy0, 0) .. (Min(iy1, q.h) - 1)
        nx  == Cardinality(xs)
        n   == nx * Cardinality(ys)
    IN  [k \in 1 .. n |-> << Max(ix0, 0) + ((k - 1) % nx),
                             Max(iy0, 0) + ((k - 1) \div nx) >>]

InflowValue(x, y, x0, y0, x1, y1, v) ==
    LET rx == (PulseRes * (2 * (x * Res + Half) - (x0 + x1))) \div (x1 - x0)
        ry == (PulseRes * (2 * (y * Res + Half) - (y0 + y1))) \div (y1 - y0)
    IN  CubicPulseTimes(Length(rx, ry), v)

\* A variant of addInflow's loop that compares the signed values, without
\* fabs.
RECURSIVE InflowWriteSigned(_, _, _, _, _, _, _, _, _)
InflowWriteSigned(src, w, cells, k, x0, y0, x1, y1, v) ==
    IF k > Len(cells) THEN src
    ELSE LET x   == cells[k][1]
             y   == cells[k][2]
             idx == x + y * w
             vi  == InflowValue(x, y, x0, y0, x1, y1, v)
             nxt == IF idx \in DOMAIN src /\ src[idx] < vi
                    THEN [src EXCEPT ![idx] = vi] ELSE src
         IN  InflowWriteSigned(nxt, w, cells, k + 1, x0, y0, x1, y1, v)

RECURSIVE InflowWrite(_, _, _, _, _, _, _, _, _)
InflowWrite(src, w, cells, k, x0, y0, x1, y1, v) ==
    IF k > Len(cells) THEN src
    ELSE LET x   == cells[k][1]
             y   == cells[k][2]
             idx == x + y * w
             vi  == InflowValue(x, y, x0, y0, x1, y1, v)
             nxt == IF idx \in DOMAIN src /\ Abs(src[idx]) < Abs(vi)
                    THEN [src EXCEPT ![idx] = vi] ELSE src
         IN  InflowWrite(nxt, w, cells, k + 1, x0, y0, x1, y1, v)

\* FluidQuantity::addInflow(x0, y0, x1, y1, v); a store past the end of
\* _src changes no sample.
AddInflow(q, x0, y0, x1, y1, v) ==
    [q EXCEPT !.src = InflowWrite(q.src, q.w, InflowSamples(q, x0, y0, x1, y1),
                                  1, x0, y0, x1, y1, v)]

\* -------------------------------------------------------- extrapolation
IsBorder(q, i) ==
    \/ i % q.w = 0 \/ i % q.w = q.w - 1
    \/ i \div q.w = 0 \/ i \div q.w = q.h - 1

Interior(q) == { i \in Cells(q) : ~IsBorder(q, i) }

NoFluidNeighbour(q, i) ==
    /\ q.cell[i - 1] # "FLUID" /\ q.cell[i + 1] # "FLUID"
    /\ q.cell[i - q.w] # "FLUID" /\ q.cell[i + q.w] # "FLUID"

\* A variant of the SOLID branch of fillSolidMask that tests the neighbour
\* along x only.
SolidMaskAlongX(q, i) ==
    IF q.normalX[i] # 0 /\ q.cell[i + Sgn(q.normalX[i])] # "FLUID" THEN 1 ELSE 0

SolidMask(q, i) ==
    (IF q.normalX[i] # 0 /\ q.cell[i + Sgn(q.normalX[i])] # "FLUID" THEN 1 ELSE 0)
  + (IF q.normalY[i] # 0 /\ q.cell[i + Sgn(q.normalY[i]) * q.w] # "FLUID" THEN 2 ELSE 0)

FillSolidMask(q) ==
    [q EXCEPT !.mask = [i \in Cells(q) |->
        IF IsBorder(q, i) THEN 255
        ELSE IF q.cell[i] = "SOLID" THEN SolidMask(q, i)
        ELSE IF q.cell[i] = "EMPTY" THEN (IF NoFluidNeighbour(q, i) THEN 1 ELSE 0)
        ELSE 0]]

ExtrapolateNormal(q, idx) ==
    LET nx   == q.normalX[idx]
        ny   == q.normalY[idx]
        srcX == q.src[idx + Sgn(nx)]
        srcY == q.src[idx + Sgn(ny) * q.w]
    IN  IF IsNaN(srcX) \/ IsNaN(srcY) \/ Abs(nx) + Abs(ny) = 0 THEN NaNValue
        ELSE (Abs(nx) * srcX + Abs(ny) * srcY) \div (Abs(nx) + Abs(ny))

FluidNeighbours(q, idx) ==
    { j \in { idx - 1, idx + 1, idx - q.w, idx + q.w } : q.cell[j] = "FLUID" }

RECURSIVE SumSrc(_, _)
SumSrc(src, S) ==
    IF S = {} THEN 0
    ELSE LET j == CHOOSE k \in S : TRUE
         IN  src[j] + SumSrc(src, S \ {j})

ExtrapolateAverage(q, idx) ==
    LET S == FluidNeighbours(q, idx)
    IN  IF Cardinality(S) = 0 \/ \E j \in S : IsNaN(q.src[j]) THEN NaNValue
        ELSE SumSrc(q.src, S) \div Cardinality(S)

\* _mask[idx] &= ~bit
ClearBit(m, bit) == IF (m \div bit) % 2 = 1 THEN m - bit ELSE m

\* st is the pair [q, border]: the quantity and the LIFO, its top last.
FreeSolidNeighbour(st, idx, bit) ==
    IF st.q.cell[idx] = "SOLID"
    THEN LET m == ClearBit(st.q.mask[idx], bit)
         IN  [ q |-> [st.q EXCEPT !.mask[idx] = m],
               border |-> IF m = 0 THEN Append(st.border, idx) ELSE st.border ]
    ELSE st

\* A variant of freeEmptyNeighbour that also pushes a sample whose mask is
\* already 0.
FreeEmptyNeighbourAgain(st, idx) ==
    IF st.q.cell[idx] = "EMPTY" /\ st.q.mask[idx] <= 1
    THEN [ q |-> [st.q EXCEPT !.mask[idx] = 0], border |-> Append(st.border, idx) ]
    ELSE st

FreeEmptyNeighbour(st, idx) ==
    IF st.q.cell[idx] = "EMPTY" /\ st.q.mask[idx] = 1
    THEN [ q |-> [st.q EXCEPT !.mask[idx] = 0], border |-> Append(st.border, idx) ]
    ELSE st

\* extrapolate, up to the loop: the mask and the cells pushed first.
RECURSIVE PushReady(_, _, _)
PushReady(q, i, border) ==
    IF i >= q.w * q.h THEN border
    ELSE PushReady(q, i + 1,
            IF ~IsBorder(q, i) /\ q.cell[i] # "FLUID" /\ q.mask[i] = 0
            THEN Append(border, i) ELSE border)

ExtrapolateBegin(q) ==
    LET m == FillSolidMask(q)
    IN  [ q |-> m, border |-> PushReady(m, 0, << >>) ]

\* The cell popped from the LIFO gets its value: the average of its FLUID
\* neighbours if it is EMPTY (and becomes FLUID), else the values along its
\* normal.
PopValue(q, idx) ==
    IF q.cell[idx] = "EMPTY"
    THEN [q EXCEPT !.src[idx] = ExtrapolateAverage(q, idx), !.cell[idx] = "FLUID"]
    ELSE [q EXCEPT !.src[idx] = ExtrapolateNormal(q, idx)]

\* if (_normalX[j]*sign > 0.0) freeSolidNeighbour(j, border, 1), and the
\* same along y with bit 2.
FreeAlongX(st, j, sign) ==
    IF st.q.normalX[j] * sign > 0 THEN FreeSolidNeighbour(st, j, 1) ELSE st
FreeAlongY(st, j, sign) ==
    IF st.q.normalY[j] * sign > 0 THEN FreeSolidNeighbour(st, j, 2) ELSE st

\* The eight calls that end a turn of the loop, in the code's order.
FreeNeighbours(st, idx, w) ==
    FreeEmptyNeighbour(
      FreeEmptyNeighbour(
        FreeEmptyNeighbour(
          FreeEmptyNeighbour(
            FreeAlongY(
              FreeAlongY(
                FreeAlongX(FreeAlongX(st, idx - 1, 1), idx + 1, -1),
                idx - w, 1),
              idx + w, -1),
            idx - 1),
          idx + 1),
        idx - w),
      idx + w)

\* One turn of the while loop.
ExtrapolatePop(st) ==
    FreeNeighbours([ q |-> PopValue(st.q, st.border[Len(st.border)]),
                     border |-> SubSeq(st.border, 1, Len(st.border) - 1) ],
                   st.border[Len(st.border)], st.q.w)

HalfSum(a, b) == IF IsNaN(a) \/ IsNaN(b) THEN NaNValue ELSE (a + b) \div 2

\* A variant of the edge loops of extrapolateEmptyBorders without the test
\* for EMPTY.
EdgeValueAny(q, i) ==
    LET x == i % q.w
        y == i \div q.w
    IN  IF x >= 1 /\ x < q.w - 1 /\ y = 0 THEN q.src[i + q.w]
        ELSE IF x >= 1 /\ x < q.w - 1 /\ y = q.h - 1 THEN q.src[i - q.w]
        ELSE IF y >= 1 /\ y < q.h - 1 /\ x = 0 THEN q.src[i + 1]
        ELSE IF y >= 1 /\ y < q.h - 1 /\ x = q.w - 1 THEN q.src[i - 1]
        ELSE q.src[i]

\* The value an EMPTY edge cell (corners apart) takes from the cell inside.
EdgeValue(q, i) ==
    LET x == i % q.w
        y == i \div q.w
    IN  IF q.cell[i] # "EMPTY" THEN q.src[i]
        ELSE IF x >= 1 /\ x < q.w - 1 /\ y = 0 THEN q.src[i + q.w]
        ELSE IF x >= 1 /\ x < q.w - 1 /\ y = q.h - 1 THEN q.src[i - q.w]
        ELSE IF y >= 1 /\ y < q.h - 1 /\ x = 0 THEN q.src[i + 1]
        ELSE IF y >= 1 /\ y < q.h - 1 /\ x = q.w - 1 THEN q.src[i - 1]
        ELSE q.src[i]

\* An EMPTY corner c takes half the sum of its edge neighbours a and b.
CornerValue(q, src, c, a, b) ==
    IF q.cell[c] = "EMPTY" THEN [src EXCEPT ![c] = HalfSum(src[a], src[b])] ELSE src

Corners(q, src, w, h) ==
    CornerValue(q,
      CornerValue(q,
        CornerValue(q,
          CornerValue(q, src, 0, 1, w),
          w - 1, w - 2, 2 * w - 1),
        (h - 1) * w, (h - 1) * w + 1, (h - 2) * w),
      h * w - 1, h * w - 2, (h - 1) * w - 1)

\* A variant of extrapolateEmptyBorders whose last loop visits the border
\* samples only.
ExtrapolateEmptyBordersOnly(q) ==
    [q EXCEPT !.src = Corners(q, [i \in Cells(q) |-> EdgeValue(q, i)], q.w, q.h),
              !.cell = [i \in Cells(q) |->
                          IF q.cell[i] = "EMPTY" /\ IsBorder(q, i) THEN "FLUID"
                          ELSE q.cell[i]]]

ExtrapolateEmptyBorders(q) ==
    [q EXCEPT !.src = Corners(q, [i \in Cells(q) |-> EdgeValue(q, i)], q.w, q.h),
              !.cell = [i \in Cells(q) |->
                          IF q.cell[i] = "EMPTY" THEN "FLUID" ELSE q.cell[i]]]

RECURSIVE ExtrapolateLoop(_)
ExtrapolateLoop(st) ==
    IF st.border = << >> THEN st.q ELSE ExtrapolateLoop(ExtrapolatePop(st))

Extrapolate(q) == ExtrapolateEmptyBorders(ExtrapolateLoop(ExtrapolateBegin(q)))

\* --------------------------------------------------------- fromParticles
\* The weight addSample gives sample (ix, iy) for a particle at (x, y);
\* 0 when the sample is outside the grid.
SampleWeight(q, x, y, ix, iy) ==
    IF ix < 0 \/ iy < 0 \/ ix >= q.w \/ iy >= q.h THEN 0
    ELSE (Res - Abs(ix * Res - x)) * (Res - Abs(iy * Res - y))

\* The weight particle i adds to sample c: fromParticles clamps the
\* position, and calls addSample on the four samples around it.
ParticleWeight(q, c, px, py) ==
    LET x  == Max(Half, Min((q.w - 1) * Res - Half, px - q.ox))
        y  == Max(Half, Min((q.h - 1) * Res - Half, py - q.oy))
        ix == CInt(x)
        iy == CInt(y)
        cx == c % q.w
        cy == c \div q.w
    IN  IF cx \in { ix, ix + 1 } /\ cy \in { iy, iy + 1 }
        THEN SampleWeight(q, x, y, cx, cy) ELSE 0

\* f[lo] + ... + f[hi - 1]
RECURSIVE SumRange(_, _, _)
SumRange(f, lo, hi) ==
    IF lo >= hi THEN 0
    ELSE IF hi = lo + 1 THEN f[lo]
    ELSE SumRange(f, lo, (lo + hi) \div 2) + SumRange(f, (lo + hi) \div 2, hi)

\* A variant of FinalizeCell that leaves out the test for CELL_FLUID.
FinalizeCellAny(cell, weight) == IF weight = 0 THEN "EMPTY" ELSE cell

\* fromParticles' last loop, on the classification of a sample.
FinalizeCell(cell, weight) ==
    IF weight = 0 /\ cell = "FLUID" THEN "EMPTY" ELSE cell

\* fromParticles: weight[c] and _src[c] are the sums of the particles'
\* contributions; then the division, and FLUID samples without weight
\* become EMPTY.
FromParticles(q, count, posX, posY, property) ==
    LET k(c)   == [i \in 0 .. (count - 1) |-> ParticleWeight(q, c, posX[i], posY[i])]
        kv(c)  == [i \in 0 .. (count - 1) |->
                     ParticleWeight(q, c, posX[i], posY[i]) * property[i]]
        weight == [c \in Cells(q) |-> SumRange(k(c), 0, count)]
        total  == [c \in Cells(q) |-> SumRange(kv(c), 0, count)]
    IN  [q EXCEPT
          !.src  = [i \in Cells(q) |->
                      IF weight[i] # 0 THEN total[i] \div weight[i] ELSE total[i]],
          !.cell = [i \in Cells(q) |-> FinalizeCell(q.cell[i], weight[i])]]

\* ---------------------------------------------------- ParticleQuantities
\* A variant of _maxParticles sized for the fewest particles per cell.
MaxParticlesMin == GridW * GridH * MinPerCell

MaxParticles == GridW * GridH * MaxPerCell
Slots == 0 .. (MaxParticles - 1)
GridCells == 0 .. (GridW * GridH - 1)

\* pointInBody(x, y), x and y in grid units.
PointInBody(bodies, x, y) ==
    \E i \in 1 .. Len(bodies) : BoxDistance(bodies[i], ToWorld(x), ToWorld(y)) < 0

\* The particle pool is the record
\*   [n, hw, posX, posY, seed]: _particleCount, the number of slots of
\*   _posX/_posY written so far (the slots from hw on are as allocated),
\*   the two position arrays and frand's seed.
\* initParticles: turn k of the three nested loops, in cell k \div
\* _AvgPerCell.  pool.n is idx, which the function ends by storing in
\* _particleCount.
InitSpawn(bodies, pool, c, s1, s2) ==
    [pool EXCEPT !.seed = s2,
                 !.posX[pool.n] = (c % GridW) * Res + FrandQ(s1),
                 !.posY[pool.n] = (c \div GridW) * Res + FrandQ(s2),
                 !.hw = Max(pool.hw, pool.n + 1),
                 !.n = IF PointInBody(bodies, (c % GridW) * Res + FrandQ(s1),
                                      (c \div GridW) * Res + FrandQ(s2))
                       THEN pool.n ELSE pool.n + 1]

InitTurn(bodies, pool, k) ==
    InitSpawn(bodies, pool, k \div AvgPerCell, LcgNext(pool.seed),
              LcgNext(LcgNext(pool.seed)))

\* The turns lo .. hi - 1 in order.  The range is halved to keep the
\* evaluation shallow, and pool = pool has pool evaluated before the turns
\* that start from it.
RECURSIVE InitLoop(_, _, _, _)
InitLoop(bodies, pool, lo, hi) ==
    IF lo >= hi \/ pool # pool THEN pool
    ELSE IF hi = lo + 1 THEN InitTurn(bodies, pool, lo)
    ELSE InitLoop(bodies, InitLoop(bodies, pool, lo, (lo + hi) \div 2),
                  (lo + hi) \div 2, hi)

InitParticles(bodies, seed0) ==
    InitLoop(bodies,
             [ n |-> 0, hw |-> 0, seed |-> seed0,
               posX |-> [i \in Slots |-> 0], posY |-> [i \in Slots |-> 0] ],
             0, GridW * GridH * AvgPerCell)

CellOf(x, y) == CInt(x) + CInt(y) * GridW
InGrid(x, y) == CInt(x) >= 0 /\ CInt(y) >= 0 /\ CInt(x) < GridW /\ CInt(y) < GridH

\* countParticles
CountParticles(n, posX, posY) ==
    [c \in GridCells |->
        Cardinality({ i \in 0 .. (n - 1) : InGrid(posX[i], posY[i])
                                           /\ CellOf(posX[i], posY[i]) = c })]

\* A variant of the test that skips the particles inside the grid.
PruneSkipsInside(ix, iy) == ix >= 0 /\ iy >= 0 /\ ix < GridW /\ iy < GridH

\* The test that guards pruneParticles' use of _counts.
PruneSkips(ix, iy) == ix < 0 /\ iy < 0 /\ ix >= GridW /\ iy >= GridH

\* A variant of the removal that moves the last particle's position into the
\* slot and leaves the slot's property values as they are.
PruneRemovePositionOnly(st, idx) ==
    [st EXCEPT !.n = st.n - 1,
               !.posX[st.i] = st.posX[st.n - 1],
               !.posY[st.i] = st.posY[st.n - 1],
               !.counts[idx] = @ - 1]

\* pruneParticles: st is [n, posX, posY, prop, counts, i], i the loop
\* variable.  A turn either removes particle i, moving the last particle
\* into its slot, or goes on to i + 1.
PruneRemove(st, idx) ==
    [st EXCEPT !.n = st.n - 1,
               !.posX[st.i] = st.posX[st.n - 1],
               !.posY[st.i] = st.posY[st.n - 1],
               !.prop = [t \in QN |-> [st.prop[t] EXCEPT ![st.i] = st.prop[t][st.n - 1]]],
               !.counts[idx] = @ - 1]

PruneTurn(st) ==
    IF st.i >= st.n THEN st
    ELSE IF PruneSkips(CInt(st.posX[st.i]), CInt(st.posY[st.i]))
    THEN [st EXCEPT !.i = @ + 1]
    ELSE IF st.counts[CellOf(st.posX[st.i], st.posY[st.i])] > MaxPerCell
    THEN PruneRemove(st, CellOf(st.posX[st.i], st.posY[st.i]))
    ELSE [st EXCEPT !.i = @ + 1]

\* turns turns of the loop: every turn raises i or lowers n, so the loop
\* ends within as many turns as there are particles.
RECURSIVE PruneLoop(_, _)
PruneLoop(st, turns) ==
    IF turns <= 0 \/ st # st THEN st
    ELSE IF turns = 1 THEN PruneTurn(st)
    ELSE PruneLoop(PruneLoop(st, turns \div 2), turns - turns \div 2)

PruneParticles(st) ==
    PruneLoop([ n |-> st.n, posX |-> st.posX, posY |-> st.posY, prop |-> st.prop,
                counts |-> st.counts, i |-> 0 ], st.n)

\* The slot whose position seedParticles hands to pointInBody for a
\* particle spawned into slot j of cell idx.
SeedTestedSlot(idx, j) == idx

\* seedParticles: st is [n, hw, posX, posY, prop, seed, log, full].  junk
\* is what pointInBody answers for a position read from a slot that was
\* never written.  log records, for each spawn, the slot and position
\* written, whether that position is inside a body, and whether the
\* particle was kept; full records the return on a full pool.
SeedRejects(st, bodies, junk, ts, j, px, py) ==
    IF ts = j THEN PointInBody(bodies, px, py)
    ELSE IF ts < st.hw THEN PointInBody(bodies, st.posX[ts], st.posY[ts])
    ELSE junk

\* One spawn into slot st.n of cell idx, at (px, py); s2 is the seed after
\* the two frand calls.
SeedSpawn(st, fqs, bodies, reject, px, py, s2) ==
    [st EXCEPT !.seed = s2,
               !.hw = Max(st.hw, st.n + 1),
               !.posX[st.n] = px,
               !.posY[st.n] = py,
               !.log = Append(st.log, [ slot |-> st.n, x |-> px, y |-> py,
                                        inBody |-> PointInBody(bodies, px, py),
                                        kept |-> ~reject ]),
               !.prop = IF reject THEN st.prop
                        ELSE [t \in QN |-> [st.prop[t] EXCEPT ![st.n] = Lerp(fqs[t], px, py)]],
               !.n = IF reject THEN st.n ELSE st.n + 1]

SeedAt(st, fqs, bodies, junk, idx, px, py, s2) ==
    SeedSpawn(st, fqs, bodies,
              SeedRejects(st, bodies, junk, SeedTestedSlot(idx, st.n), st.n, px, py),
              px, py, s2)

\* Turn k of the loops: attempt k % _MinPerCell in cell k \div _MinPerCell,
\* which the innermost loop makes only while it is below _MinPerCell -
\* _counts[idx], and only if the function has not returned.
SeedTurn(st, fqs, bodies, counts, junk, k) ==
    IF st.full \/ k % MinPerCell >= MinPerCell - counts[k \div MinPerCell] THEN st
    ELSE IF st.n = MaxParticles THEN [st EXCEPT !.full = TRUE]
    ELSE SeedAt(st, fqs, bodies, junk, k \div MinPerCell,
                ((k \div MinPerCell) % GridW) * Res + FrandQ(LcgNext(st.seed)),
                ((k \div MinPerCell) \div GridW) * Res + FrandQ(LcgNext(LcgNext(st.seed))),
                LcgNext(LcgNext(st.seed)))

RECURSIVE SeedLoop(_, _, _, _, _, _, _)
SeedLoop(st, fqs, bodies, counts, junk, lo, hi) ==
    IF lo >= hi \/ st # st THEN st
    ELSE IF hi = lo + 1 THEN SeedTurn(st, fqs, bodies, counts, junk, lo)
    ELSE SeedLoop(SeedLoop(st, fqs, bodies, counts, junk, lo, (lo + hi) \div 2),
                  fqs, bodies, counts, junk, (lo + hi) \div 2, hi)

SeedParticles(st, fqs, bodies, counts, junk) ==
    SeedLoop([st EXCEPT !.log = << >>, !.full = FALSE], fqs, bodies, counts, junk,
             0, GridW * GridH * MinPerCell)

\* A variant of gridToParticles that overwrites the property with the
\* sample instead of adding the sample to the scaled property.
GridToParticlesOverwrite(prop, fqs, n, posX, posY, a) ==
    [t \in QN |-> [i \in Slots |->
        IF i < n THEN Lerp(fqs[t], posX[i], posY[i]) ELSE prop[t][i]]]

\* gridToParticles(alpha), alpha = a/AlphaDen.
GridToParticles(prop, fqs, n, posX, posY, a) ==
    [t \in QN |-> [i \in Slots |->
        IF i < n THEN OneMinusAlphaTimes(a, prop[t][i]) + Lerp(fqs[t], posX[i], posY[i])
        ELSE prop[t][i]]]

\* A velocity sample divided by _hx: quanta per second as they stand.
OverHx(vel) == vel
\* A velocity sample used as cells per second without that division.
NotOverHx(vel) == vel \div MinWH

\* rungeKutta3 with timestep = 1/TimestepDen.
RungeKutta3(x, y, u, v) ==
    LET firstU == OverHx(Lerp(u, x, y))
        firstV == OverHx(Lerp(v, x, y))
        midX   == x + firstU \div (2 * TimestepDen)
        midY   == y + firstV \div (2 * TimestepDen)
        midU   == OverHx(Lerp(u, midX, midY))
        midV   == OverHx(Lerp(v, midX, midY))
        lastX  == x + (3 * midU) \div (4 * TimestepDen)
        lastY  == y + (3 * midV) \div (4 * TimestepDen)
        lastU  == NotOverHx(Lerp(u, lastX, lastY))
        lastV  == NotOverHx(Lerp(v, lastX, lastY))
    IN  << x + (2 * firstU + 3 * midU + 4 * lastU) \div (9 * TimestepDen),
           y + (2 * firstV + 3 * midV + 4 * lastV) \div (9 * TimestepDen) >>

\* The distance below which backProject moves a particle: d < -1.0.
BackProjectThreshold == -WorldOne

\* Where backProject leaves the surface point p, the body's normal being n.
BackProjectPush(p, n) == << p[1] - n[1] * Res, p[2] - n[2] * Res >>

BackProject(bodies, x, y) ==
    IF bodies = << >> THEN << x, y >>
    ELSE LET b == bodies[NearestBody(bodies, Len(bodies), ToWorld(x), ToWorld(y)) + 1]
             d == BoxDistance(b, ToWorld(x), ToWorld(y))
         IN  IF d < BackProjectThreshold
             THEN LET p == BoxClosestSurfacePoint(b, ToWorld(x), ToWorld(y))
                      n == BoxDistanceNormal(b, p[1], p[2])
                      r == BackProjectPush(p, n)
                  IN  << ToGrid(r[1]), ToGrid(r[2]) >>
             ELSE << x, y >>

\* A variant of the clamp without its lower bound.
ClampXAbove(x) == Min(x, GridW * Res - Eps)

\* A variant of the clamp without its upper bound.
ClampYBelow(y) == Max(y, 0)

\* The clamp that ends advect's loop body.
ClampX(x) == Max(Min(x, GridW * Res - Eps), 0)
ClampY(y) == Max(Min(y, GridH * Res - Eps), 0)

AdvectOne(bodies, x, y, u, v) ==
    LET r == RungeKutta3(x, y, u, v)
        b == BackProject(bodies, r[1], r[2])
    IN  << ClampX(b[1]), ClampY(b[2]) >>

\* ------------------------------------------------------------ FluidSolver
\* A density of 1.0 counted in density quanta.
DensityOne == 100

\* The four grids of FluidSolver's constructor; t starts at _tAmb.
NewQuantities ==
    [ d |-> NewQuantity(GridW, GridH, Half, Half),
      t |-> [NewQuantity(GridW, GridH, Half, Half)
                EXCEPT !.src = [i \in 0 .. (GridW * GridH - 1) |-> TAmb]],
      u |-> NewQuantity(GridW + 1, GridH, 0, Half),
      v |-> NewQuantity(GridW, GridH + 1, Half, 0) ]

\* FluidSolver::addInflow(x, y, w, h, d, t, u, v)
SolverAddInflow(fqs, x, y, w, h, d, t, u, v) ==
    [ d |-> AddInflow(fqs.d, x, y, x + w, y + h, d),
      t |-> AddInflow(fqs.t, x, y, x + w, y + h, t),
      u |-> AddInflow(fqs.u, x, y, x + w, y + h, u),
      v |-> AddInflow(fqs.v, x, y, x + w, y + h, v) ]

\* The inflow update() stamps after copy.
UpdateInflow(fqs) ==
    SolverAddInflow(fqs, WorldLit(45, 100), WorldLit(2, 10), WorldLit(2, 10),
                    WorldLit(5, 100), DensityOne, TAmb, 0, 0)

\* setBoundaryCondition: uv is << u.src, v.src >>; the cells are visited in
\* index order, then the walls are zeroed.
RECURSIVE BoundaryLoop(_, _, _, _)
BoundaryLoop(fqs, bodies, uv, idx) ==
    IF idx >= GridW * GridH THEN uv
    ELSE IF fqs.d.cell[idx] # "SOLID" THEN BoundaryLoop(fqs, bodies, uv, idx + 1)
    ELSE LET b  == bodies[fqs.d.body[idx] + 1]
             x  == idx % GridW
             y  == idx \div GridW
             u1 == [uv[1] EXCEPT
                      ![x + y * (GridW + 1)] =
                          VelocityX(b, ToWorld(x * Res), ToWorld(y * Res + Half)),
                      ![x + 1 + y * (GridW + 1)] =
                          VelocityX(b, ToWorld((x + 1) * Res), ToWorld(y * Res + Half))]
             v1 == [uv[2] EXCEPT
                      ![x + y * GridW] =
                          VelocityX(b, ToWorld(x * Res + Half), ToWorld(y * Res)),
                      ![x + (y + 1) * GridW] =
                          VelocityX(b, ToWorld(x * Res + Half), ToWorld((y + 1) * Res))]
         IN  BoundaryLoop(fqs, bodies, << u1, v1 >>, idx + 1)

SetBoundaryCondition(fqs, bodies) ==
    LET uv == BoundaryLoop(fqs, bodies, << fqs.u.src, fqs.v.src >>, 0)
        u2 == [i \in Cells(fqs.u) |->
                 IF i % (GridW + 1) = 0 \/ i % (GridW + 1) = GridW THEN 0 ELSE uv[1][i]]
        v2 == [i \in Cells(fqs.v) |->
                 IF i \div GridW = 0 \/ i \div GridW = GridH THEN 0 ELSE uv[2][i]]
    IN  [fqs EXCEPT !.u.src = u2, !.v.src = v2]

\* What the heat solve, buoyancy and the pressure solve change in one step.
\* The conjugate-gradient solves are not computed here: a run fixes their
\* outcome as a velocity f.u, f.v that every u and v sample gains per step,
\* and a temperature field they leave as it is.  With f.u = f.v = 0 this is
\* what the code computes for a fluid at rest at ambient temperature (both
\* right-hand sides are uniform and buoyancy is 0).
FieldPush == Res * TimestepDen
Fields ==
    { [u |-> 0, v |-> 0], [u |-> FieldPush, v |-> 0],
      [u |-> -FieldPush, v |-> -FieldPush] }

Accelerate(q, a) == [q EXCEPT !.src = [i \in Cells(q) |-> q.src[i] + a]]

\* A variant of project whose result is written at every cell.
ProjectEveryCell(cell, r) == r

\* project(limit) for the right-hand side r: _p is zeroed; if no FLUID cell
\* of d holds an error of 1e-5 or more (max ignores a NaN) it returns at
\* once; otherwise every write to _p is a scaledAdd, which writes the cells
\* that are FLUID in d and no other, whether the loop ends by convergence or
\* by its budget.  The iterate is not computed: at FLUID cells it is r, the
\* solution of the system the field leaves as it is.
Project(cell, r) ==
    IF \A i \in DOMAIN r : cell[i] = "FLUID" => (r[i] = 0 \/ IsNaN(r[i]))
    THEN [i \in DOMAIN r |-> 0]
    ELSE [i \in DOMAIN r |-> IF cell[i] = "FLUID" THEN r[i] ELSE 0]

\* update(): memcpy(_r, _t->src()), project(2000), memcpy(_t->src(), _p).
HeatSolve(fqs) == [fqs EXCEPT !.t.src = Project(fqs.d.cell, fqs.t.src)]

\* update(): the heat solve and _t->extrapolate().
HeatStep(fqs) == [fqs EXCEPT !.t = Extrapolate(HeatSolve(fqs).t)]

\* update(): buoyancy and the pressure solve, between the two boundary
\* conditions.
FlowStep(fqs, f) ==
    [fqs EXCEPT !.u = Accelerate(fqs.u, f.u), !.v = Accelerate(fqs.v, f.v)]

\* update(): the three extrapolations that follow applyPressure.
ExtrapolateStep(fqs) ==
    [fqs EXCEPT !.d = Extrapolate(fqs.d), !.u = Extrapolate(fqs.u),
                !.v = Extrapolate(fqs.v)]

\* update(), from the heat solve down to the second setBoundaryCondition.
EulerianUpdates(fqs, bodies, f) ==
    SetBoundaryCondition(
        ExtrapolateStep(SetBoundaryCondition(FlowStep(HeatStep(fqs), f), bodies)),
        bodies)

\* particlesToGrid's first loop for one quantity.
TransferOne(q, n, posX, posY, property) ==
    Extrapolate(FromParticles(q, n, posX, posY, property))

\* The bodies a run is constructed with: none, a box at rest that covers
\* cell (1, 1) and reaches half a cell into its neighbours, a box larger
\* than the domain that starts to the left of it and moves over it, or such
\* a box at rest over the domain.
BigHalf == WorldOne + (GridW + GridH) * Res
RestingBox ==
    [ px |-> Res + Half, py |-> Res + Half, sx |-> 2 * Res, sy |-> 2 * Res,
      rot |-> 0, vx |-> 0, vy |-> 0, vt |-> 0 ]
MovingBox ==
    [ px |-> -(BigHalf + Res), py |-> (GridH * Res) \div 2,
      sx |-> 2 * BigHalf, sy |-> 2 * BigHalf, rot |-> 0,
      vx |-> (BigHalf + Res + (GridW * Res) \div 2) * TimestepDen,
      vy |-> 0, vt |-> 0 ]
CoveringBox ==
    [ px |-> (GridW * Res) \div 2, py |-> (GridH * Res) \div 2,
      sx |-> 2 * BigHalf, sy |-> 2 * BigHalf, rot |-> 0,
      vx |-> 0, vy |-> 0, vt |-> 0 ]
BodySets == { << >>, << RestingBox >>, << MovingBox >>, << CoveringBox >> }

\* The rectangles the driver stamps, as << x, y, w, h >> in world quanta:
\* OnIdle's (0.35, 0.9, 0.1, 0.05) and the unit square.
DriverRects ==
    { << WorldLit(35, 100), WorldLit(9, 10), WorldLit(1, 10), WorldLit(5, 100) >>,
      << 0, 0, WorldOne, WorldOne >> }

\* The temperature OnIdle adds to ambientT().
InflowHeat == 300

\* ------------------------------------------------------------------ state
VARIABLES
    fq,        \* the grids _d, _t, _u, _v
    bodies,    \* the driver's bodies
    posX,      \* _posX
    posY,      \* _posY
    n,         \* _particleCount
    hw,        \* the number of slots of _posX and _posY written so far
    prop,      \* _properties
    counts,    \* _counts
    seed,      \* frand's seed
    alpha,     \* _flipAlpha, counted in 1/AlphaDen
    field,     \* what the solves and buoyancy add to the velocities
    pc,        \* where the driver and update() stand
    steps,     \* update() calls completed
    iter,      \* OnIdle's loop counter
    stamped,   \* << grid, index, value >> of each sample the driver's last addInflow changed
    spawnLog,  \* the spawn attempts of the last seedParticles
    pruned,    \* the particles the last pruneParticles removed
    snap       \* the grids and properties when diff (or extrapolate) began, or after the heat solve

vars == << fq, bodies, posX, posY, n, hw, prop, counts, seed, alpha, field,
           pc, steps, iter, stamped, spawnLog, pruned, snap >>

ZeroProp == [t \in QN |-> [i \in Slots |-> 0]]
NoSnap == [ fq |-> NewQuantities, prop |-> ZeroProp ]

\* FluidSolver's constructor, for the bodies B and frand's seed as the
\* program starts.
Constructed(B) ==
    LET pool == InitParticles(B, LcgSeed0)
    IN  /\ bodies = B
        /\ fq = NewQuantities
        /\ posX = pool.posX
        /\ posY = pool.posY
        /\ n = pool.n
        /\ hw = pool.hw
        /\ seed = pool.seed
        /\ prop = GridToParticles(ZeroProp, NewQuantities, pool.n,
                                  pool.posX, pool.posY, AlphaDen)
        /\ counts = [c \in GridCells |-> 0]

Init ==
    /\ \E B \in BodySets : Constructed(B)
    /\ field \in Fields
    /\ alpha = FlipAlphaNum
    /\ pc = "loop"
    /\ steps = 0
    /\ iter = 0
    /\ stamped = {}
    /\ spawnLog = << >>
    /\ pruned = 0
    /\ snap = NoSnap

\* OnIdle: pSolver->addInflow(...) with the rectangle r.
DriverAddInflow(r) ==
    /\ pc \in { "loop", "advected" }
    /\ iter < StepsPerIdle
    /\ steps < MaxSteps
    /\ \E f \in { SolverAddInflow(fq, r[1], r[2], r[3], r[4],
                                  DensityOne, TAmb + InflowHeat, 0, 0) } :
         /\ fq' = f
         /\ stamped' = UNION { { << t, i, f[t].src[i] >> :
                                   i \in { c \in Cells(fq[t]) :
                                             f[t].src[c] # fq[t].src[c] } } :
                                 t \in QN }
    /\ pc' = "stamped"
    /\ UNCHANGED << bodies, posX, posY, n, hw, prop, counts, seed, alpha, field,
                    steps, iter, spawnLog, pruned, snap >>

\* update(): fillSolidFields on the four grids, then particlesToGrid's
\* first loop.
Transferred(fqs, B, count, px, py, properties) ==
    [t \in QN |-> TransferOne(FillSolidFields(fqs[t], B), count, px, py, properties[t])]

\* particlesToGrid: countParticles and pruneParticles.
CountedAndPruned(count, px, py, properties) ==
    PruneParticles([ n |-> count, posX |-> px, posY |-> py, prop |-> properties,
                     counts |-> CountParticles(count, px, py) ])

\* particlesToGrid: seedParticles on what pruneParticles left.
Seeded(pr, written, s, fqs, B, junk) ==
    SeedParticles([ n |-> pr.n, hw |-> written, posX |-> pr.posX, posY |-> pr.posY,
                    prop |-> pr.prop, seed |-> s, log |-> << >>, full |-> FALSE ],
                  fqs, B, pr.counts, junk)

\* update(): fillSolidFields, particlesToGrid, copy, and the inflow.
ParticlesToGrid ==
    /\ pc = "stamped"
    /\ \E junk \in BOOLEAN :
       \E f2 \in { Transferred(fq, bodies, n, posX, posY, prop) } :
       \E pr \in { CountedAndPruned(n, posX, posY, prop) } :
       \E sd \in { Seeded(pr, hw, seed, f2, bodies, junk) } :
         /\ fq' = UpdateInflow([t \in QN |-> Copy(f2[t])])
         /\ posX' = sd.posX
         /\ posY' = sd.posY
         /\ n' = sd.n
         /\ hw' = sd.hw
         /\ prop' = sd.prop
         /\ seed' = sd.seed
         /\ counts' = pr.counts
         /\ spawnLog' = sd.log
         /\ pruned' = n - pr.n
    /\ pc' = "euler"
    /\ UNCHANGED << bodies, alpha, field, steps, iter, stamped, snap >>

\* update(): the heat solve, buoyancy, the pressure solve, the
\* extrapolations and the boundary condition.
Eulerian ==
    /\ pc = "euler"
    /\ fq' = EulerianUpdates(fq, bodies, field)
    /\ snap' = [ fq |-> HeatSolve(fq), prop |-> prop ]
    /\ pc' = "updated"
    /\ UNCHANGED << bodies, posX, posY, n, hw, prop, counts, seed, alpha, field,
                    steps, iter, stamped, spawnLog, pruned >>

\* update(): diff on the four grids.
DiffAll ==
    /\ pc = "updated"
    /\ fq' = [t \in QN |-> Diff(fq[t], alpha)]
    /\ snap' = [ fq |-> fq, prop |-> prop ]
    /\ pc' = "diffed"
    /\ UNCHANGED << bodies, posX, posY, n, hw, prop, counts, seed, alpha, field,
                    steps, iter, stamped, spawnLog, pruned >>

\* update(): gridToParticles(_flipAlpha)
Transfer ==
    /\ pc = "diffed"
    /\ prop' = GridToParticles(prop, fq, n, posX, posY, alpha)
    /\ pc' = "transferred"
    /\ UNCHANGED << fq, bodies, posX, posY, n, hw, counts, seed, alpha, field,
                    steps, iter, stamped, spawnLog, pruned, snap >>

\* update(): undiff on the four grids.
UndiffAll ==
    /\ pc = "transferred"
    /\ fq' = [t \in QN |-> Undiff(fq[t], alpha)]
    /\ pc' = "undiffed"
    /\ UNCHANGED << bodies, posX, posY, n, hw, prop, counts, seed, alpha, field,
                    steps, iter, stamped, spawnLog, pruned, snap >>

\* A variant of the step's end that also moves the bodies by one timestep.
AdvectMovingBodies ==
    /\ pc = "undiffed"
    /\ LET r == [i \in Slots |->
                   IF i < n THEN AdvectOne(bodies, posX[i], posY[i], fq.u, fq.v)
                   ELSE << posX[i], posY[i] >>]
       IN  /\ posX' = [i \in Slots |-> r[i][1]]
           /\ posY' = [i \in Slots |-> r[i][2]]
    /\ bodies' = [i \in DOMAIN bodies |-> BodyUpdate(bodies[i])]
    /\ pc' = "advected"
    /\ steps' = steps + 1
    /\ iter' = iter + 1
    /\ UNCHANGED << fq, n, hw, prop, counts, seed, alpha, field,
                    stamped, spawnLog, pruned, snap >>

\* update(): advect, which ends the step.
Advect ==
    /\ pc = "undiffed"
    /\ LET r == [i \in Slots |->
                   IF i < n THEN AdvectOne(bodies, posX[i], posY[i], fq.u, fq.v)
                   ELSE << posX[i], posY[i] >>]
       IN  /\ posX' = [i \in Slots |-> r[i][1]]
           /\ posY' = [i \in Slots |-> r[i][2]]
    /\ pc' = "advected"
    /\ steps' = steps + 1
    /\ iter' = iter + 1
    /\ UNCHANGED << fq, bodies, n, hw, prop, counts, seed, alpha, field,
                    stamped, spawnLog, pruned, snap >>

\* OnIdle after its loop: every body moves by one timestep.
BodiesUpdate ==
    /\ pc = "advected"
    /\ iter = StepsPerIdle
    /\ bodies' = [i \in DOMAIN bodies |-> BodyUpdate(bodies[i])]
    /\ pc' = "loop"
    /\ iter' = 0
    /\ UNCHANGED << fq, posX, posY, n, hw, prop, counts, seed, alpha, field,
                    steps, stamped, spawnLog, pruned, snap >>

Next ==
    \/ \E r \in DriverRects : DriverAddInflow(r)
    \/ ParticlesToGrid
    \/ Eulerian
    \/ DiffAll
    \/ Transfer
    \/ UndiffAll
    \/ Advect
    \/ BodiesUpdate

Spec == Init /\ [][Next]_vars

\* --------------------------------------------- one quantity's three calls
\* fillSolidFields, fromParticles and extrapolate called in any order on the
\* four grids of a solver, while the driver moves its bodies.  The particles
\* are the constructor's; each carries, in every quantity, a value that varies with its position.
RampProp(px, py, count) ==
    [t \in QN |-> [i \in Slots |->
        IF i < count THEN TAmb + px[i] * GridH * Res + py[i] ELSE 0]]

InitQuantity ==
    /\ \E B \in BodySets :
         \E pool \in { InitParticles(B, LcgSeed0) } :
           /\ bodies = B
           /\ posX = pool.posX
           /\ posY = pool.posY
           /\ n = pool.n
           /\ hw = pool.hw
           /\ seed = pool.seed
           /\ prop = RampProp(pool.posX, pool.posY, pool.n)
    /\ fq = NewQuantities
    /\ counts = [c \in GridCells |-> 0]
    /\ field = [u |-> 0, v |-> 0]
    /\ alpha = FlipAlphaNum
    /\ pc = "made"
    /\ steps = 0
    /\ iter = 0
    /\ stamped = {}
    /\ spawnLog = << >>
    /\ pruned = 0
    /\ snap = NoSnap

\* fillSolidFields(bodies) on each grid.
QuantityFill ==
    /\ fq' = [t \in QN |-> FillSolidFields(fq[t], bodies)]
    /\ iter' = 0
    /\ pc' = "filled"
    /\ snap' = NoSnap
    /\ UNCHANGED << bodies, posX, posY, n, hw, prop, counts, seed, alpha, field,
                    steps, stamped, spawnLog, pruned >>

\* The driver moves its bodies by one timestep, between two fills.
QuantityBodiesUpdate ==
    /\ pc = "filled"
    /\ steps < MaxSteps
    /\ bodies' = [b \in DOMAIN bodies |-> BodyUpdate(bodies[b])]
    /\ bodies' # bodies
    /\ steps' = steps + 1
    /\ pc' = "moved"
    /\ UNCHANGED << fq, posX, posY, n, hw, prop, counts, seed, alpha, field,
                    iter, stamped, spawnLog, pruned, snap >>

\* fromParticles on each grid, with the first count particles.
QuantityFromParticles(count) ==
    /\ fq' = [t \in QN |-> FromParticles(fq[t], count, posX, posY, prop[t])]
    /\ iter' = 0
    /\ pc' = "deposited"
    /\ snap' = NoSnap
    /\ UNCHANGED << bodies, posX, posY, n, hw, prop, counts, seed, alpha, field,
                    steps, stamped, spawnLog, pruned >>

\* extrapolate on each grid; iter counts the calls in a row, up to two, and
\* snap keeps the classification and the values on entry.
QuantityExtrapolate ==
    /\ snap' = [ fq |-> [t \in QN |->
                          [ cell |-> fq[t].cell, src |-> fq[t].src ]],
                 prop |-> ZeroProp ]
    /\ fq' = [t \in QN |-> Extrapolate(fq[t])]
    /\ iter' = Min(iter + 1, 2)
    /\ pc' = "extrapolated"
    /\ UNCHANGED << bodies, posX, posY, n, hw, prop, counts, seed, alpha, field,
                    steps, stamped, spawnLog, pruned >>

NextQuantity ==
    \/ QuantityFill
    \/ QuantityBodiesUpdate
    \/ \E count \in { 0, 1, n } : QuantityFromParticles(count)
    \/ QuantityExtrapolate

SpecQuantity == InitQuantity /\ [][NextQuantity]_vars

\* ------------------------------------------------- one FLIP transfer
\* copy, a change of the grids, diff, gridToParticles and undiff, for any
\* _flipAlpha, on grids and properties whose values are k*unit with k in
\* -2 .. 2.  With unit = AlphaDen*Res*Res no product of the transfer is
\* rounded.
FlipAlphas == { 0, FlipAlphaNum, AlphaDen \div 2, AlphaDen }
FlipUnits == { 1, AlphaDen * Res * Res }
FlipPatterns == 1 .. 3
Pattern(k, i) == ((k * i + k) % 5) - 2

Patterned(fqs, k, unit) ==
    [t \in QN |-> [fqs[t] EXCEPT !.src = [i \in Cells(fqs[t]) |-> Pattern(k, i) * unit]]]

InitFlip ==
    /\ \E unit \in FlipUnits :
       \E k \in FlipPatterns :
       \E pool \in { InitParticles(<< >>, LcgSeed0) } :
           /\ posX = pool.posX
           /\ posY = pool.posY
           /\ n = pool.n
           /\ hw = pool.hw
           /\ seed = pool.seed
           /\ fq = Patterned(NewQuantities, k, unit)
           /\ prop = [t \in QN |-> [i \in Slots |->
                        IF i < pool.n THEN Pattern(k + 1, i) * unit ELSE 0]]
    /\ alpha \in FlipAlphas
    /\ bodies = << >>
    /\ counts = [c \in GridCells |-> 0]
    /\ field = [u |-> 0, v |-> 0]
    /\ pc = "made"
    /\ steps = 0
    /\ iter = 0
    /\ stamped = {}
    /\ spawnLog = << >>
    /\ pruned = 0
    /\ snap = NoSnap

\* update(): copy on the four grids.
FlipCopy ==
    /\ pc = "made"
    /\ fq' = [t \in QN |-> Copy(fq[t])]
    /\ pc' = "euler"
    /\ UNCHANGED << bodies, posX, posY, n, hw, prop, counts, seed, alpha, field,
                    steps, iter, stamped, spawnLog, pruned, snap >>

\* What update() does to the grids between copy and diff.
FlipUpdate(k, unit) ==
    /\ pc = "euler"
    /\ fq' = Patterned(fq, k, unit)
    /\ pc' = "updated"
    /\ UNCHANGED << bodies, posX, posY, n, hw, prop, counts, seed, alpha, field,
                    steps, iter, stamped, spawnLog, pruned, snap >>

NextFlip ==
    \/ FlipCopy
    \/ \E k \in FlipPatterns : \E unit \in FlipUnits : FlipUpdate(k, unit)
    \/ DiffAll
    \/ Transfer
    \/ UndiffAll

SpecFlip == InitFlip /\ [][NextFlip]_vars

\* ------------------------------------------------ occupancy of one cell
\* occupancy and the volume fillSolidFields derives from it, for one cell
\* whose four corner distances are drawn from Dists: small and large
\* distances of either sign, and 0.  The variables of the solver rest.
DistMax == 8
Dists == { -DistMax, -3, -1, 0, 1, 3, DistMax }

SolverAtRest ==
    /\ fq = NewQuantities
    /\ bodies = << >>
    /\ posX = [i \in Slots |-> 0]
    /\ posY = [i \in Slots |-> 0]
    /\ n = 0
    /\ hw = 0
    /\ prop = ZeroProp
    /\ counts = [c \in GridCells |-> 0]
    /\ seed = LcgSeed0
    /\ alpha = FlipAlphaNum
    /\ field = [u |-> 0, v |-> 0]
    /\ steps = 0
    /\ iter = 0
    /\ stamped = {}
    /\ spawnLog = << >>
    /\ pruned = 0

\* snap.d holds << d11, d12, d21, d22 >>, in the order of _phi around a cell.
InitOccupancy ==
    /\ SolverAtRest
    /\ pc = "made"
    /\ \E d \in Dists \X Dists \X Dists \X Dists :
         snap = [ d |-> d, occ |-> << 0, 1 >>, neg |-> << 0, 1 >>,
                  vol |-> << 1, 1 >> ]

\* occupancy of the four distances and of their negations, and the cell's
\* volume as fillSolidFields stores it.
OccupancyCall ==
    /\ pc = "made"
    /\ snap' = [snap EXCEPT
                  !.occ = Occupancy(snap.d[1], snap.d[2], snap.d[3], snap.d[4]),
                  !.neg = Occupancy(-snap.d[1], -snap.d[2], -snap.d[3], -snap.d[4]),
                  !.vol = ClampedVolume([i \in 0 .. 3 |-> snap.d[i + 1]], 0, 1)]
    /\ pc' = "measured"
    /\ UNCHANGED << fq, bodies, posX, posY, n, hw, prop, counts, seed, alpha,
                    field, steps, iter, stamped, spawnLog, pruned >>

SpecOccupancy == InitOccupancy /\ [][OccupancyCall]_vars

\* ------------------------------------------------ the constructor's inputs
\* FluidSolver(w, h, rhoAir, ...) for widths, heights and air densities
\* that include 0 and negative values.  The constructor tests none of its
\* arguments: it stores rhoAir, divides 1.0 by min(w, h) in doubles and
\* allocates its arrays.  A new[] of negative length fails as the build's
\* runtime does (bad_alloc or bad_array_new_length); otherwise the
\* constructor returns a solver.  snap holds the arguments and the outcome.
ConstructorOutcomes(w, h) ==
    IF \E len \in { w * h, (w + 1) * (h + 1), (w + 1) * h, (w + 2) * (h + 1),
                    w * (h + 1), (w + 1) * (h + 2), w * h * MaxPerCell } :
         len < 0
    THEN { "bad_alloc", "bad_array_new_length" }
    ELSE { "solver" }

InitConstructor ==
    /\ SolverAtRest
    /\ pc = "made"
    /\ \E w \in -1 .. GridW, h \in -1 .. GridH,
          rhoAir \in { -DensityOne, 0, DensityOne } :
         snap = [ w |-> w, h |-> h, rhoAir |-> rhoAir, outcome |-> "none" ]

ConstructorCall ==
    /\ pc = "made"
    /\ \E o \in ConstructorOutcomes(snap.w, snap.h) :
         snap' = [snap EXCEPT !.outcome = o]
    /\ pc' = "returned"
    /\ UNCHANGED << fq, bodies, posX, posY, n, hw, prop, counts, seed, alpha,
                    field, steps, iter, stamped, spawnLog, pruned >>

SpecConstructor == InitConstructor /\ [][ConstructorCall]_vars

\* ------------------------------------------------------ addInflow, twice
\* FluidSolver::addInflow called twice with the same arguments, on grids
\* whose samples hold k*unit with k in -2 .. 2.  The rectangles are the
\* driver's and one that reaches past the domain on every side.  snap
\* holds the arguments, src as the grids were made (first) and src on
\* entry to the last call (before).
InitInflow ==
    /\ \E k \in FlipPatterns, unit \in { 30, 60, 90 },
          r \in DriverRects \cup { << -Res, -Res, 3 * WorldOne, 3 * WorldOne >> },
          val \in { << DensityOne, TAmb + InflowHeat, 0, 0 >>,
                    << DensityOne, TAmb, FieldPush, -FieldPush >> } :
         /\ fq = Patterned(NewQuantities, k, unit)
         /\ snap = [ r |-> r, val |-> val,
                     first  |-> [t \in QN |-> Patterned(NewQuantities, k, unit)[t].src],
                     before |-> [t \in QN |-> Patterned(NewQuantities, k, unit)[t].src] ]
    /\ bodies = << >>
    /\ posX = [i \in Slots |-> 0]
    /\ posY = [i \in Slots |-> 0]
    /\ n = 0
    /\ hw = 0
    /\ prop = ZeroProp
    /\ counts = [c \in GridCells |-> 0]
    /\ seed = LcgSeed0
    /\ alpha = FlipAlphaNum
    /\ field = [u |-> 0, v |-> 0]
    /\ pc = "made"
    /\ steps = 0
    /\ iter = 0
    /\ stamped = {}
    /\ spawnLog = << >>
    /\ pruned = 0

\* FluidSolver::addInflow(x, y, w, h, d, t, u, v), a first and a second time.
InflowCall ==
    /\ pc \in { "made", "once" }
    /\ fq' = SolverAddInflow(fq, snap.r[1], snap.r[2], snap.r[3], snap.r[4],
                             snap.val[1], snap.val[2], snap.val[3], snap.val[4])
    /\ snap' = [snap EXCEPT !.before = [t \in QN |-> fq[t].src]]
    /\ pc' = IF pc = "made" THEN "once" ELSE "twice"
    /\ UNCHANGED << bodies, posX, posY, n, hw, prop, counts, seed, alpha, field,
                    steps, iter, stamped, spawnLog, pruned >>

SpecInflow == InitInflow /\ [][InflowCall]_vars

\* ------------------------------------------------- the pressure matrix
\* _densityAir and _densitySoot as the driver passes them, in 1/100.
DensityAir == 10
DensitySoot == 25

\* computeDensities: the density of cell i in 1/100000, for a temperature
\* above 0.
\*   _densityAir*_tAmb/t*(1 + alpha*d), at least 0.05*_densityAir
CellDensity(fqs, i) ==
    Max((TAmb * (DensityAir * DensityOne
                   + (DensitySoot - DensityAir) * fqs.d.src[i]) * 10)
            \div fqs.t.src[i],
        DensityAir * 50)

\* computeDensities: what _uDensity (q = fqs.u) or _vDensity (q = fqs.v)
\* holds for face i: half the density of each cell the face belongs to.
FaceDensity(fqs, q, i) ==
    LET x  == i % q.w
        y  == i \div q.w
        dx == q.w - GridW
        dy == q.h - GridH
    IN  (IF x - dx >= 0 /\ y - dy >= 0
         THEN CellDensity(fqs, (x - dx) + (y - dy) * GridW) \div 2 ELSE 0)
      + (IF x < GridW /\ y < GridH
         THEN CellDensity(fqs, x + y * GridW) \div 2 ELSE 0)

\* scale*volume/rho of buildPressureMatrix, in 1/(1000*TimestepDen): the
\* volume is a fraction, rho a density in 1/100000.
PressureFactor(vol, rho) ==
    (MinWH * MinWH * ((1000 * vol[1]) \div vol[2]) * 100000) \div rho

\* buildPressureMatrix(timestep): _aDiag, _aPlusX and _aPlusY.  The +y
\* coupling reads _vDensity at _u->idx(x, y + 1); a read past the end of
\* _vDensity yields stray.
BuildPressureMatrix(fqs, stray) ==
    LET fluid(i) == fqs.d.cell[i] = "FLUID"
        cx(i) == i % GridW
        cy(i) == i \div GridW
        uIdx(x, y) == x + y * fqs.u.w
        plusX(i) ==
            IF fluid(i) /\ cx(i) < GridW - 1 /\ fluid(i + 1)
            THEN PressureFactor(Volume(fqs.u, cx(i) + 1, cy(i)),
                                FaceDensity(fqs, fqs.u, uIdx(cx(i) + 1, cy(i))))
            ELSE 0
        plusY(i) ==
            IF fluid(i) /\ cy(i) < GridH - 1 /\ fluid(i + GridW)
            THEN PressureFactor(Volume(fqs.v, cx(i), cy(i) + 1),
                                IF uIdx(cx(i), cy(i) + 1) \in Cells(fqs.v)
                                THEN FaceDensity(fqs, fqs.v, uIdx(cx(i), cy(i) + 1))
                                ELSE stray)
            ELSE 0
    IN  [ aDiag  |-> [i \in GridCells |->
                        plusX(i) + (IF cx(i) > 0 THEN plusX(i - 1) ELSE 0)
                      + plusY(i) + (IF cy(i) > 0 THEN plusY(i - GridW) ELSE 0)],
          aPlusX |-> [i \in GridCells |-> -plusX(i)],
          aPlusY |-> [i \in GridCells |-> -plusY(i)] ]

\* Grids after fillSolidFields with no body or the resting box, holding a
\* soot concentration and a temperature above 0 that vary from cell to cell.
InitPressure ==
    /\ \E B \in { << >>, << RestingBox >> }, k \in FlipPatterns,
          unit \in { 0, 25, 50 }, heat \in { 0, 10, 30, 100 } :
         /\ bodies = B
         /\ fq = [t \in QN |->
                    FillSolidFields(
                      [NewQuantities[t] EXCEPT !.src = [i \in Cells(NewQuantities[t]) |->
                          IF t = "d" THEN (Pattern(k, i) + 2) * unit
                          ELSE IF t = "t" THEN TAmb + Pattern(k + 1, i) * heat
                          ELSE 0]],
                      B)]
    /\ posX = [i \in Slots |-> 0]
    /\ posY = [i \in Slots |-> 0]
    /\ n = 0
    /\ hw = 0
    /\ prop = ZeroProp
    /\ counts = [c \in GridCells |-> 0]
    /\ seed = LcgSeed0
    /\ alpha = FlipAlphaNum
    /\ field = [u |-> 0, v |-> 0]
    /\ pc = "made"
    /\ steps = 0
    /\ iter = 0
    /\ stamped = {}
    /\ spawnLog = << >>
    /\ pruned = 0
    /\ snap = NoSnap

\* update(): computeDensities and buildPressureMatrix; snap holds the matrix.
PressureBuild ==
    /\ pc = "made"
    /\ \E stray \in { 1, DensityAir * 1000 } :
         snap' = BuildPressureMatrix(fq, stray)
    /\ pc' = "built"
    /\ UNCHANGED << fq, bodies, posX, posY, n, hw, prop, counts, seed, alpha,
                    field, steps, iter, stamped, spawnLog, pruned >>

SpecPressure == InitPressure /\ [][PressureBuild]_vars

\* ============================================================ properties
ActiveSlots == 0 .. (n - 1)

\* Particle i is inside one of the bodies.
InsideBody(i) ==
    \E b \in DOMAIN bodies :
        BoxDistance(bodies[b], ToWorld(posX[i]), ToWorld(posY[i])) < 0

\* C1: every value the driver's addInflow wrote into a grid between two
\* steps is still in that grid when the next step's Eulerian updates begin.
DriverInflowStillPresent ==
    pc = "euler" => \A s \in stamped : fq[s[1]].src[s[2]] = s[3]

\* C2: in each of the grids, whatever calls of fillSolidFields,
\* fromParticles and extrapolate came before, a sample is SOLID exactly
\* when its volume is 0.
SolidIffZeroVolume ==
    \A t \in QN : \A i \in Cells(fq[t]) :
        (fq[t].cell[i] = "SOLID") <=> RatIsZero(fq[t].volume[i])

\* fromParticles or extrapolate has just run on grids whose samples a body
\* that moved into the domain made SOLID.
SolidIffZeroVolumeReached ==
    /\ pc \in { "deposited", "extrapolated" }
    /\ steps >= 1
    /\ \E t \in QN : \E i \in Cells(fq[t]) :
         fq[t].cell[i] = "SOLID" /\ RatIsZero(fq[t].volume[i])

\* C3: when extrapolate has returned no sample is EMPTY: the samples that
\* were EMPTY on entry are FLUID, the others are classified as on entry.
ExtrapolateLeavesNoEmpty ==
    pc = "extrapolated" =>
        \A t \in QN : \A i \in Cells(fq[t]) :
            /\ fq[t].cell[i] # "EMPTY"
            /\ snap.fq[t].cell[i] = "EMPTY" => fq[t].cell[i] = "FLUID"
            /\ snap.fq[t].cell[i] # "EMPTY" => fq[t].cell[i] = snap.fq[t].cell[i]

\* extrapolate has returned from a grid that on entry held an EMPTY border
\* sample, an EMPTY interior sample none of whose neighbours was FLUID, and
\* a SOLID sample.
ExtrapolateLeavesNoEmptyReached ==
    /\ pc = "extrapolated"
    /\ \E t \in QN :
         /\ \E i \in Cells(fq[t]) :
              IsBorder(fq[t], i) /\ snap.fq[t].cell[i] = "EMPTY"
         /\ \E i \in Interior(fq[t]) :
              /\ snap.fq[t].cell[i] = "EMPTY"
              /\ \A d \in { -1, 1, -fq[t].w, fq[t].w } :
                   snap.fq[t].cell[i + d] # "FLUID"
         /\ \E i \in Cells(fq[t]) : snap.fq[t].cell[i] = "SOLID"

\* C4: after advect no active particle is inside a body.
NoParticleInsideBody ==
    pc = "advected" => \A i \in ActiveSlots : ~InsideBody(i)

ParticleCountWithinCapacity ==
    /\ 0 <= n /\ n <= MaxParticles
    /\ hw <= MaxParticles
    /\ \A k \in DOMAIN spawnLog : spawnLog[k].slot < MaxParticles

\* A step's seeding has added particles to a pool that pruning had
\* shortened.
ParticleCountWithinCapacityReached ==
    /\ pc = "euler"
    /\ steps >= 1
    /\ pruned > 0
    /\ \E k \in DOMAIN spawnLog : spawnLog[k].kept

\* C7: seeding keeps a spawned particle exactly when its own position is
\* outside every body.
SeedingRejectsByOwnPosition ==
    \A k \in DOMAIN spawnLog : spawnLog[k].kept <=> ~spawnLog[k].inBody

SampleNew(t, i) == Lerp(snap.fq[t], posX[i], posY[i])
SampleOld(t, i) ==
    Lerp([snap.fq[t] EXCEPT !.src = snap.fq[t].old], posX[i], posY[i])

\* The grids and properties that diff found are multiples of
\* AlphaDen*Res*Res, so that no product or sample is rounded.
FlipExact ==
    \A t \in QN :
        /\ \A c \in Cells(snap.fq[t]) :
             /\ snap.fq[t].src[c] % (AlphaDen * Res * Res) = 0
             /\ snap.fq[t].old[c] % (AlphaDen * Res * Res) = 0
        /\ \A i \in ActiveSlots : snap.prop[t][i] % (AlphaDen * Res * Res) = 0

\* C9: after copy, the updates, diff(alpha), gridToParticles(alpha) and
\* undiff(alpha), each particle's property is
\* alpha*q_new + (1 - alpha)*(prop_old + q_new - q_old); with alpha = 1 it is
\* the sample of the grid as undiff left it.
FlipTransferContract ==
    pc = "undiffed" =>
        \A t \in QN : \A i \in ActiveSlots :
            /\ FlipExact =>
                 AlphaDen * prop[t][i]
                   = alpha * SampleNew(t, i)
                     + (AlphaDen - alpha)
                       * (snap.prop[t][i] + SampleNew(t, i) - SampleOld(t, i))
            /\ alpha = AlphaDen => prop[t][i] = Lerp(fq[t], posX[i], posY[i])

\* The transfer has run with the program's alpha on exact values, and has
\* changed a property whose particle sees different samples before and after
\* the updates.
FlipTransferContractReached ==
    /\ pc = "undiffed"
    /\ alpha = FlipAlphaNum
    /\ FlipExact
    /\ \E t \in QN : \E i \in ActiveSlots :
         /\ prop[t][i] # snap.prop[t][i]
         /\ SampleNew(t, i) # SampleOld(t, i)
         /\ snap.prop[t][i] # SampleOld(t, i)

OccupancySymmetry ==
    pc = "measured" =>
        LET sum == RatAdd(snap.occ, snap.neg) IN sum[1] = sum[2]

\* C12: the volume fillSolidFields stores is 0 or lies in [0.01, 1].
VolumeZeroOrWithinBounds ==
    pc = "measured" =>
        \/ RatIsZero(snap.vol)
        \/ /\ ~RatLess(snap.vol, 1, 100)
           /\ snap.vol[1] <= snap.vol[2]

\* The cell is covered but for a sliver smaller than 0.01, and its volume
\* is stored as 0.
VolumeZeroOrWithinBoundsReached ==
    /\ pc = "measured"
    /\ RatIsZero(snap.vol)
    /\ ~RatIsZero(RatOneMinus(snap.occ))
    /\ RatLess(RatOneMinus(snap.occ), 1, 100)

\* C13: a second extrapolate in a row leaves every src as the first left it.
ExtrapolateIdempotent ==
    (pc = "extrapolated" /\ iter >= 2) =>
        \A t \in QN : fq[t].src = snap.fq[t].src

\* The while loop of extrapolate, watched: TRUE when some turn pops an EMPTY
\* sample none of whose four neighbours is FLUID, for which
\* extrapolateAverage divides by a count of 0.
RECURSIVE PopsEmptyWithoutFluid(_)
PopsEmptyWithoutFluid(st) ==
    IF st.border = << >> THEN FALSE
    ELSE \/ /\ st.q.cell[st.border[Len(st.border)]] = "EMPTY"
            /\ FluidNeighbours(st.q, st.border[Len(st.border)]) = {}
         \/ PopsEmptyWithoutFluid(ExtrapolatePop(st))

\* C14: in every grid state, the extrapolate that may be called next pops
\* no EMPTY sample without a FLUID neighbour, so extrapolateAverage never
\* runs with a count of 0.
EmptyPoppedHasFluidNeighbour ==
    \A t \in QN : ~PopsEmptyWithoutFluid(ExtrapolateBegin(fq[t]))

\* C15: a constructor called with w <= 0, h <= 0 or rhoAir <= 0 ends in a
\* configuration error, not in a solver.
ConstructorRejectsBadConfiguration ==
    (pc = "returned" /\ (snap.w <= 0 \/ snap.h <= 0 \/ snap.rhoAir <= 0))
        => snap.outcome = "configuration_error"

\* C16: after setBoundaryCondition every face of a SOLID cell that is not a
\* wall of the domain holds the velocity of the cell's body at the face
\* centre, along the face normal: x-velocity on the two u faces, y-velocity
\* on the two v faces.
SolidFacesHoldBodyVelocity ==
    pc = "updated" =>
        \A idx \in Cells(fq.d) :
            fq.d.cell[idx] = "SOLID" =>
                LET b == bodies[fq.d.body[idx] + 1]
                    x == idx % GridW
                    y == idx \div GridW
                IN  /\ x >= 1 =>
                          fq.u.src[x + y * (GridW + 1)]
                            = VelocityX(b, ToWorld(x * Res), ToWorld(y * Res + Half))
                    /\ x + 1 < GridW =>
                          fq.u.src[x + 1 + y * (GridW + 1)]
                            = VelocityX(b, ToWorld((x + 1) * Res), ToWorld(y * Res + Half))
                    /\ y >= 1 =>
                          fq.v.src[x + y * GridW]
                            = VelocityY(b, ToWorld(x * Res + Half), ToWorld(y * Res))
                    /\ y + 1 < GridH =>
                          fq.v.src[x + (y + 1) * GridW]
                            = VelocityY(b, ToWorld(x * Res + Half), ToWorld((y + 1) * Res))

\* The samples the loops of addInflow visit on grid t for the rectangle in
\* snap, and the value the loop computes for the k-th of them.
InflowVisits(t) ==
    InflowSamples(fq[t], snap.r[1], snap.r[2], snap.r[1] + snap.r[3],
                  snap.r[2] + snap.r[4])
InflowVisitIndex(t, k) == InflowVisits(t)[k][1] + InflowVisits(t)[k][2] * fq[t].w
InflowVisitValue(t, k) ==
    InflowValue(InflowVisits(t)[k][1], InflowVisits(t)[k][2],
                snap.r[1], snap.r[2], snap.r[1] + snap.r[3], snap.r[2] + snap.r[4],
                snap.val[CHOOSE j \in 1 .. 4 : QOrder[j] = t])
InflowWithinArrays ==
    \A t \in QN : \A k \in DOMAIN InflowVisits(t) :
        InflowVisitIndex(t, k) \in Cells(fq[t])

InflowIndicesWithinArrays == pc # "made" => InflowWithinArrays

\* C19: for a FLUID cell whose +y neighbour is FLUID, _aPlusY is
\* -timestep*volume/(hx*hx*rho) with the volume and the density rho of the
\* v face (x, y + 1) between the two cells.
PlusYUsesFaceDensity ==
    pc = "built" =>
        \A i \in GridCells :
            (/\ fq.d.cell[i] = "FLUID"
             /\ i \div GridW < GridH - 1
             /\ fq.d.cell[i + GridW] = "FLUID") =>
                snap.aPlusY[i] = -PressureFactor(fq.v.volume[i + GridW],
                                                 FaceDensity(fq, fq.v, i + GridW))

\* C20: no part of a solver step changes a body; position, scale, rotation
\* and velocities change only in the driver's SolidBody::update between
\* steps.
BodiesChangeOnlyByDriver == [][bodies' # bodies => BodiesUpdate]_vars

\* A whole step has run on the box the driver had moved, and has left it
\* as the driver's update made it.
BodiesChangeOnlyByDriverReached ==
    /\ pc = "advected"
    /\ bodies = << BodyUpdate(MovingBox) >>
    /\ bodies # << MovingBox >>

\* The extrapolate call that has just returned on grid t, replayed: the
\* quantity as the call found it, with its mask filled and the first
\* samples pushed, and the LIFO with the quantity at the head of every turn
\* of the while loop, the last being the empty LIFO that ends the loop.
ExtrapolateEntry(t) ==
    ExtrapolateBegin([fq[t] EXCEPT !.cell = snap.fq[t].cell, !.src = snap.fq[t].src])

RECURSIVE LoopHeads(_)
LoopHeads(st) ==
    IF st.border = << >> THEN << st >>
    ELSE << st >> \o LoopHeads(ExtrapolatePop(st))

\* The pushes seen in the heads h, as pairs << turn, place in the LIFO >>:
\* what head k holds from the place of the sample popped before it.
PushEvents(h) ==
    { << k, j >> \in (1 .. Len(h)) \X (1 .. h[1].q.w * h[1].q.h) :
        /\ j <= Len(h[k].border)
        /\ j >= (IF k = 1 THEN 1 ELSE Len(h[k - 1].border)) }

ReadyAt(h, k, j) ==
    \/ h[k].q.cell[j] = "FLUID"
    \/ \E e \in 1 .. k - 1 : h[e].border[Len(h[e].border)] = j

ParticleAt(px, py, pr, i) == << px[i], py[i], [t \in QN |-> pr[t][i]] >>

\* C23: when pruneParticles returns (countParticles having run just before
\* it on the same particles), every cell's count is at most MaxPerCell and
\* equals the number of active particles in that cell, a cell that held at
\* most MaxPerCell particles has lost none, and the survivors are particles
\* that were there before, each at its position with its own property
\* values, none of them twice.
PruneLeavesAtMostMaxPerCell ==
    pc = "stamped" =>
        \E was \in { CountParticles(n, posX, posY) } :
        \E pr \in { CountedAndPruned(n, posX, posY, prop) } :
            /\ \A c \in GridCells :
                 /\ pr.counts[c] <= MaxPerCell
                 /\ pr.counts[c] =
                        Cardinality({ i \in 0 .. (pr.n - 1) :
                                        CellOf(pr.posX[i], pr.posY[i]) = c })
                 /\ was[c] <= MaxPerCell => pr.counts[c] = was[c]
                 /\ was[c] > MaxPerCell => pr.counts[c] = MaxPerCell
            /\ \A i \in 0 .. (pr.n - 1) :
                 \E p \in { ParticleAt(pr.posX, pr.posY, pr.prop, i) } :
                    Cardinality({ k \in 0 .. (pr.n - 1) :
                                    ParticleAt(pr.posX, pr.posY, pr.prop, k) = p })
                      <= Cardinality({ k \in 0 .. (n - 1) :
                                         ParticleAt(posX, posY, prop, k) = p })

\* pruneParticles is about to remove particles from a crowded cell, moving
\* a particle with other property values into a freed slot, while another
\* cell holds particles and is not crowded.
PruneLeavesAtMostMaxPerCellReached ==
    /\ pc = "stamped"
    /\ \E was \in { CountParticles(n, posX, posY) } :
       \E pr \in { CountedAndPruned(n, posX, posY, prop) } :
         /\ pr.n < n
         /\ \E c \in GridCells : was[c] > 0 /\ was[c] <= MaxPerCell
         /\ \E i \in 0 .. (pr.n - 1) :
              /\ ParticleAt(pr.posX, pr.posY, pr.prop, i) # ParticleAt(posX, posY, prop, i)
              /\ [t \in QN |-> pr.prop[t][i]] # [t \in QN |-> prop[t][i]]

====
